---- MODULE Spec2Model ----
(***************************************************************************)
(* earnings_dates_yf.py: read a CSV of tickers, ask the earnings-date      *)
(* provider for each ticker, pick the next (or most recent) earnings date, *)
(* sort the records and write the report.                                  *)
(*                                                                         *)
(* Text is a sequence of code points (so that stripping and ordering are   *)
(* computed); an optional value is None (<<>>) or Some(x) (<<x>>); a       *)
(* colon-separated tag such as the source field is the tuple of its        *)
(* fields.  A timestamp is a number of time units since the epoch.         *)
(***************************************************************************)
EXTENDS Integers, Sequences, FiniteSets, TLC

\* ---------------------------------------------------------------- bounds
MaxRows == 2            \* rows of the input CSV
MaxTime == 2            \* timestamps are 0..MaxTime
MaxEntries == 2         \* provider entries per response (resolver specification)
MaxWhenNames == 2       \* the provider uses the first MaxWhenNames time-of-day names
MaxMainEntries == 1     \* provider entries per response (batch specification)

\* ------------------------------------------------------- optional values
None == <<>>
Some(x) == <<x>>
NaT == None
NaN == None

Times == 0..MaxTime

SeqsUpTo(S, n) == UNION {[1..k -> S] : k \in 0..n}

\* ------------------------------------------------------------------ text
Whitespace == {32, 9}
nan_str == <<110, 97, 110>>

RECURSIVE lstrip(_)
lstrip(s) == IF Len(s) > 0 /\ Head(s) \in Whitespace THEN lstrip(Tail(s)) ELSE s

RECURSIVE rstrip(_)
rstrip(s) ==
    IF Len(s) > 0 /\ s[Len(s)] \in Whitespace
    THEN rstrip(SubSeq(s, 1, Len(s) - 1))
    ELSE s

\* Series.str.strip() on one value
str_strip(s) == rstrip(lstrip(s))

\* Series.astype(str) on one cell: a missing cell becomes the text "nan"
astype_str(cell) == IF cell = NaN THEN nan_str ELSE cell[1]

\* str(x) of a provider value: a missing value prints as "nan"
str(v) == IF v = NaN THEN "nan" ELSE v[1]

\* Python's order on str: by code point, a proper prefix first
RECURSIVE StrLess(_, _)
StrLess(a, b) ==
    IF Len(a) = 0 THEN Len(b) > 0
    ELSE IF Len(b) = 0 THEN FALSE
    ELSE IF Head(a) # Head(b) THEN Head(a) < Head(b)
    ELSE StrLess(Tail(a), Tail(b))

\* ------------------------------------------------------------ timestamps
\* Timestamp.isoformat(): fixed-width decimal text
isoformat(t) == <<48 + (t \div 10), 48 + (t % 10)>>

IsDigit(c) == c >= 48 /\ c <= 57

\* pd.to_datetime(..., errors="coerce", utc=True) on one value: a missing
\* value or text that is no timestamp becomes NaT
to_datetime(v) ==
    IF v = None THEN NaT
    ELSE LET s == v[1] IN
         IF Len(s) = 2 /\ IsDigit(s[1]) /\ IsDigit(s[2])
         THEN Some((s[1] - 48) * 10 + (s[2] - 48))
         ELSE NaT

\* ------------------------------------------------------ provider responses
EarningsDate == "Earnings Date"
WhenCandidates == <<"Time", "TimeOfDay", "When", "Time (ET)">>
WhenCandidateSet == {WhenCandidates[k] : k \in 1..Len(WhenCandidates)}

RawDates == {Some(isoformat(t)) : t \in Times} \cup {Some(<<63>>)}
RawWhens == {NaN, Some("AMC")}
EpochIndex == Some(isoformat(0))

ExceptionKinds == {"HTTPError", "KeyError"}
ExceptionMessages == {"timeout", "no data"}
NoException == [kind |-> "", msg |-> "", stage |-> ""]
Exceptions ==
    [kind : ExceptionKinds, msg : ExceptionMessages, stage : {"contact", "process"}]

WhenColumnSets(maxNames) ==
    SUBSET {WhenCandidates[k] : k \in (1..maxNames) \cap DOMAIN WhenCandidates}

\* rows of a frame whose date is the index (newer provider versions)
IndexEntries(cols) ==
    {[index |-> d, vals |-> w] : d \in RawDates, w \in [cols -> RawWhens]}

\* rows of a frame whose date is the column "Earnings Date" (older versions)
ColumnEntries(cols) ==
    {[index |-> EpochIndex,
      vals |-> [c \in cols \cup {EarningsDate} |-> IF c = EarningsDate THEN d ELSE w[c]]]
        : d \in RawDates, w \in [cols -> RawWhens]}

\* a frame of the provider: the date is the index, or the column "Earnings Date"
Frame(cols, dateInColumn, es) ==
    [kind |-> "frame",
     columns |-> IF dateInColumn THEN cols \cup {EarningsDate} ELSE cols,
     entries |-> es, exc |-> NoException]

FrameEntries(cols, dateInColumn) ==
    IF dateInColumn THEN ColumnEntries(cols) ELSE IndexEntries(cols)

NoneResponse == [kind |-> "none", columns |-> {}, entries |-> <<>>, exc |-> NoException]
RaiseResponse(e) == [kind |-> "raise", columns |-> {}, entries |-> <<>>, exc |-> e]

\* what t.get_earnings_dates(limit=16) and the processing of its result can do:
\* return None, return a frame (possibly with no rows), or raise
IsResponse(resp, maxEntries, maxNames) ==
    \/ resp = NoneResponse
    \/ \E e \in Exceptions : resp = RaiseResponse(e)
    \/ \E cols \in WhenColumnSets(maxNames), dateInColumn \in BOOLEAN, k \in 0..maxEntries :
        \E es \in [1..k -> FrameEntries(cols, dateInColumn)] :
            resp = Frame(cols, dateInColumn, es)

\* the batch specification draws from frames without time-of-day columns
MainResponses ==
    {NoneResponse} \cup {RaiseResponse(e) : e \in Exceptions}
    \cup UNION {{Frame({}, dateInColumn, es)
                    : es \in SeqsUpTo(FrameEntries({}, dateInColumn), MaxMainEntries)}
                : dateInColumn \in BOOLEAN}

\* ------------------------------------------------------------- the resolver
ProvenanceTag == <<"yfinance", "get_earnings_dates">>
ErrorTag(e) == <<"error", e.kind>>

EarningsRecord(ticker, date, when, source, got) ==
    [ticker |-> ticker, next_earnings_date |-> date, when |-> when,
     source |-> source, got_upcoming |-> got]

\* the parsed date of one entry: the "Earnings Date" column if the frame has
\* one, the index otherwise
entry_dt(resp, e) ==
    IF EarningsDate \in resp.columns
    THEN to_datetime(e.vals[EarningsDate])
    ELSE to_datetime(e.index)

\* df.assign(_dt=dt_col)
assign_dt(resp) ==
    [k \in 1..Len(resp.entries) |->
        [vals |-> resp.entries[k].vals, dt |-> entry_dt(resp, resp.entries[k])]]

\* df.dropna(subset=["_dt"])
dropna(rows) ==
    LET parsed(r) == r.dt # NaT IN SelectSeq(rows, parsed)

\* the first candidate name that is a column of the frame, if any
when_col(columns) ==
    LET present == {k \in 1..Len(WhenCandidates) : WhenCandidates[k] \in columns} IN
    IF present = {} THEN None
    ELSE Some(WhenCandidates[CHOOSE k \in present : \A j \in present : k <= j])

\* upcoming with the boundary excluded: df[df["_dt"] > now]
upcoming_strict(df, now) ==
    LET keep(r) == r.dt[1] > now IN SelectSeq(df, keep)

\* df[df["_dt"] >= now]
upcoming(df, now) ==
    LET keep(r) == r.dt[1] >= now IN SelectSeq(df, keep)

\* df[df["_dt"] < now]
past(df, now) ==
    LET keep(r) == r.dt[1] < now IN SelectSeq(df, keep)

Range(s) == {s[k] : k \in 1..Len(s)}

\* rows.sort_values("_dt").iloc[0]: the default sort is not stable, so any row
\* with the smallest timestamp can come first
iloc_first(rows) == {r \in Range(rows) : \A q \in Range(rows) : r.dt[1] <= q.dt[1]}

\* iloc_last taking the other end of the sorted rows: .iloc[0]
iloc_last_earliest(rows) ==
    {r \in Range(rows) : \A q \in Range(rows) : r.dt[1] <= q.dt[1]}

\* rows.sort_values("_dt").iloc[-1]: any row with the largest timestamp
iloc_last(rows) == {r \in Range(rows) : \A q \in Range(rows) : r.dt[1] >= q.dt[1]}

\* str(row.get(when_col)) if when_col else None
row_when(row, wc) == IF wc # None THEN Some(str(row.vals[wc[1]])) ELSE None

\* the records one call can return, given what the provider does
get_next_earnings_for_ticker(ticker, now, resp) ==
    IF resp.kind = "raise"
    THEN {EarningsRecord(ticker, None, None, ErrorTag(resp.exc), FALSE)}
    ELSE IF resp.kind = "none" \/ Len(resp.entries) = 0
    THEN {EarningsRecord(ticker, None, None, ProvenanceTag, FALSE)}
    ELSE
        LET df == dropna(assign_dt(resp))
            wc == when_col(resp.columns)
            up == upcoming(df, now)
            pa == past(df, now)
        IN  IF Len(up) > 0
            THEN {EarningsRecord(ticker, Some(isoformat(row.dt[1])), row_when(row, wc),
                                 ProvenanceTag, TRUE) : row \in iloc_first(up)}
            ELSE IF Len(pa) > 0
            THEN {EarningsRecord(ticker, Some(isoformat(row.dt[1])), row_when(row, wc),
                                 ProvenanceTag, FALSE) : row \in iloc_last(pa)}
            ELSE {EarningsRecord(ticker, None, None, ProvenanceTag, FALSE)}

\* ------------------------------------------------------------------- state
VARIABLES
    infile,      \* the input CSV as read_csv parses it: its columns, and the cells
                 \* of its first column
    pc,          \* where main is
    idx,         \* the row the comprehension of main is at
    results,     \* the records collected so far
    calls,       \* the tickers get_next_earnings_for_ticker was called with
    outfile,     \* the report: None until to_csv writes it
    stderr,      \* what was printed to standard error
    stdout,      \* what was printed to standard output
    exitStatus,  \* the exit status of the process, None while it runs
    r_pc,        \* one resolver call on its own: where it is
    r_ticker,    \*   its argument
    r_now,       \*   the "now" it captured
    r_resp,      \*   what the provider does
    r_ret        \*   the record it returned

vars == <<infile, pc, idx, results, calls, outfile, stderr, stdout, exitStatus,
          r_pc, r_ticker, r_now, r_resp, r_ret>>
mainVars == <<infile, pc, idx, results, calls, outfile, stderr, stdout, exitStatus>>
resolverVars == <<r_pc, r_ticker, r_now, r_resp, r_ret>>

\* cells read_csv can produce: an empty cell is NaN, text keeps its blanks
Cells == {NaN, Some(<<32>>), Some(<<65>>), Some(<<66>>), Some(<<65, 32>>)}
InputFiles ==
    [columns : {{"ticker", "name"}, {"symbol", "name"}}, cells : SeqsUpTo(Cells, MaxRows)]

\* ------------------------------------------------------------ report writer
Columns == <<"ticker", "next_earnings_date", "when", "source", "got_upcoming">>

\* out_df["_sort"] = pd.to_datetime(out_df["next_earnings_date"], ...)
with_sort(recs) ==
    [k \in 1..Len(recs) |->
        [rec |-> recs[k], sort |-> to_datetime(recs[k].next_earnings_date)]]

\* RowBefore without the second key: sort_values("_sort", na_position="last")
RowBefore_dateOnly(a, b) ==
    IF a.sort # NaT /\ b.sort # NaT THEN a.sort[1] < b.sort[1]
    ELSE a.sort # NaT

\* the order of sort_values(["_sort", "ticker"], na_position="last"):
\* a comes strictly before b
RowBefore(a, b) ==
    IF a.sort # NaT /\ b.sort # NaT
    THEN \/ a.sort[1] < b.sort[1]
         \/ a.sort[1] = b.sort[1] /\ StrLess(a.rec.ticker, b.rec.ticker)
    ELSE IF a.sort # NaT THEN TRUE
    ELSE IF b.sort # NaT THEN FALSE
    ELSE StrLess(a.rec.ticker, b.rec.ticker)

RECURSIVE Insert(_, _)
Insert(r, s) ==
    IF Len(s) = 0 THEN <<r>>
    ELSE IF RowBefore(r, Head(s)) THEN <<r>> \o s
    ELSE <<Head(s)>> \o Insert(r, Tail(s))

\* the multi-key sort is stable: rows equal on both keys keep their order
RECURSIVE sort_values(_)
sort_values(rows) ==
    IF Len(rows) = 0 THEN <<>>
    ELSE Insert(rows[Len(rows)], sort_values(SubSeq(rows, 1, Len(rows) - 1)))

\* drop_sort that also drops repeated tickers: .drop_duplicates("ticker")
drop_sort_unique(rows) ==
    LET first(k) == \A j \in 1..(k - 1) : rows[j].rec.ticker # rows[k].rec.ticker
        kept == {k \in 1..Len(rows) : first(k)}
        RECURSIVE pick(_)
        pick(k) ==
            IF k > Len(rows) THEN <<>>
            ELSE (IF k \in kept THEN <<rows[k].rec>> ELSE <<>>) \o pick(k + 1)
    IN pick(1)

\* .drop(columns=["_sort"])
drop_sort(rows) == [k \in 1..Len(rows) |-> rows[k].rec]

\* one line of to_csv: None is written as an empty field, a boolean as its name
to_csv_row(rec) ==
    [ticker |-> rec.ticker,
     next_earnings_date |->
        IF rec.next_earnings_date = None THEN <<>> ELSE rec.next_earnings_date[1],
     when |-> IF rec.when = None THEN "" ELSE rec.when[1],
     source |-> rec.source,
     got_upcoming |-> IF rec.got_upcoming THEN "True" ELSE "False"]

to_csv(recs) ==
    [header |-> Columns, rows |-> [k \in 1..Len(recs) |-> to_csv_row(recs[k])]]

\* ---------------------------------------------------------------------- main
\* tickers["ticker"].astype(str).str.strip() at one row
ticker_at(k) == str_strip(astype_str(infile.cells[k]))

\* ReadCsv without the early exit: the run goes on with the first column
ReadCsv_noExit ==
    /\ pc = "start"
    /\ pc' = "resolve"
    /\ UNCHANGED <<infile, idx, results, calls, outfile, stderr, stdout, exitStatus>>
    /\ UNCHANGED resolverVars

\* read_csv and the check for the ticker column
ReadCsv ==
    /\ pc = "start"
    /\ IF "ticker" \notin infile.columns
       THEN /\ stderr' = Some("Input CSV must contain a 'ticker' column.")
            /\ exitStatus' = Some(2)
            /\ pc' = "exited"
       ELSE /\ pc' = "resolve"
            /\ UNCHANGED <<stderr, exitStatus>>
    /\ UNCHANGED <<infile, idx, results, calls, outfile, stdout>>
    /\ UNCHANGED resolverVars

\* one row of the comprehension whose ticker is empty: "if t" drops it
ResolveSkip ==
    /\ pc = "resolve"
    /\ idx <= Len(infile.cells)
    /\ Len(ticker_at(idx)) = 0
    /\ idx' = idx + 1
    /\ UNCHANGED <<infile, pc, results, calls, outfile, stderr, stdout, exitStatus>>
    /\ UNCHANGED resolverVars

\* one row of the comprehension whose ticker is not empty: the resolver is called
ResolveCall ==
    /\ pc = "resolve"
    /\ idx <= Len(infile.cells)
    /\ Len(ticker_at(idx)) > 0
    /\ \E now \in Times, resp \in MainResponses :
        \E rec \in get_next_earnings_for_ticker(ticker_at(idx), now, resp) :
            /\ results' = Append(results, rec)
            /\ calls' = Append(calls, ticker_at(idx))
    /\ idx' = idx + 1
    /\ UNCHANGED <<infile, pc, outfile, stderr, stdout, exitStatus>>
    /\ UNCHANGED resolverVars

\* the frame of the results, sorted and written
WriteReport ==
    /\ pc = "resolve"
    /\ idx > Len(infile.cells)
    /\ Len(results) > 0
    /\ outfile' = Some(to_csv(drop_sort(sort_values(with_sort(results)))))
    /\ stdout' = Some(<<"Wrote", Len(results), "rows">>)
    /\ exitStatus' = Some(0)
    /\ pc' = "exited"
    /\ UNCHANGED <<infile, idx, results, calls, stderr>>
    /\ UNCHANGED resolverVars

\* pd.DataFrame([]) has no columns: out_df["next_earnings_date"] raises KeyError,
\* nothing catches it and the interpreter exits with status 1
FrameKeyError ==
    /\ pc = "resolve"
    /\ idx > Len(infile.cells)
    /\ Len(results) = 0
    /\ stderr' = Some("KeyError: 'next_earnings_date'")
    /\ exitStatus' = Some(1)
    /\ pc' = "exited"
    /\ UNCHANGED <<infile, idx, results, calls, outfile, stdout>>
    /\ UNCHANGED resolverVars

ResolverIdle ==
    /\ r_pc = "idle"
    /\ r_ticker = <<>>
    /\ r_now = 0
    /\ r_resp = NoneResponse
    /\ r_ret = None

Init ==
    /\ infile \in InputFiles
    /\ pc = "start"
    /\ idx = 1
    /\ results = <<>>
    /\ calls = <<>>
    /\ outfile = None
    /\ stderr = None
    /\ stdout = None
    /\ exitStatus = None
    /\ ResolverIdle

Next == ReadCsv \/ ResolveSkip \/ ResolveCall \/ WriteReport \/ FrameKeyError

Spec == Init /\ [][Next]_vars

\* ------------------------------------------------- one resolver call on its own
Resolve ==
    /\ r_pc = "called"
    /\ \E rec \in get_next_earnings_for_ticker(r_ticker, r_now, r_resp) :
        r_ret' = Some(rec)
    /\ r_pc' = "returned"
    /\ UNCHANGED <<r_ticker, r_now, r_resp>>
    /\ UNCHANGED mainVars

InitResolver ==
    /\ infile = [columns |-> {"ticker", "name"}, cells |-> <<>>]
    /\ pc = "idle"
    /\ idx = 1
    /\ results = <<>>
    /\ calls = <<>>
    /\ outfile = None
    /\ stderr = None
    /\ stdout = None
    /\ exitStatus = None
    /\ r_pc = "called"
    /\ r_ticker = <<65>>
    /\ r_now \in Times
    /\ IsResponse(r_resp, MaxEntries, MaxWhenNames)
    /\ r_ret = None

NextResolver == Resolve

SpecResolver == InitResolver /\ [][NextResolver]_vars

\* ================================================================ properties
SetMin(S) == CHOOSE x \in S : \A y \in S : x <= y
SetMax(S) == CHOOSE x \in S : \A y \in S : x >= y

Returned == r_pc = "returned"
Ret == r_ret[1]

\* the timestamps of the provider entries that parse
ParsedTimes ==
    {entry_dt(r_resp, r_resp.entries[k])[1] :
        k \in {j \in 1..Len(r_resp.entries) : entry_dt(r_resp, r_resp.entries[j]) # NaT}}
UpcomingTimes == {t \in ParsedTimes : t >= r_now}
PastTimes == {t \in ParsedTimes : t < r_now}

\* C1: when the provider raises, the record has no date, got_upcoming false and
\* the source error:<kind>:<message>, with the exception's kind and its message
C1_ErrorRecordHasKindAndMessage ==
    (Returned /\ r_resp.kind = "raise") =>
        /\ Ret.ticker = r_ticker
        /\ Ret.next_earnings_date = None
        /\ Ret.got_upcoming = FALSE
        /\ Ret.source = <<"error", r_resp.exc.kind, r_resp.exc.msg>>

\* C4: when some parsed entry is at or after "now", the record has
\* got_upcoming true and the smallest timestamp that is at or after "now"
C4_UpcomingIsEarliest ==
    (Returned /\ r_resp.kind = "frame" /\ UpcomingTimes # {}) =>
        /\ Ret.got_upcoming = TRUE
        /\ to_datetime(Ret.next_earnings_date) = Some(SetMin(UpcomingTimes))

\* C4 witness: two upcoming entries, the later one first, the earlier one
\* exactly at "now"
C4_Witness ==
    /\ Returned /\ r_resp.kind = "frame" /\ Len(r_resp.entries) = 2
    /\ entry_dt(r_resp, r_resp.entries[1]) = Some(r_now + 1)
    /\ entry_dt(r_resp, r_resp.entries[2]) = Some(r_now)
    /\ Ret.got_upcoming = TRUE
    /\ Ret.next_earnings_date = Some(isoformat(r_now))

\* C5: when no parsed entry is at or after "now" and some is before it, the
\* record has got_upcoming false and the largest past timestamp; a record
\* from the past branch exists only when there is no upcoming entry
C5_PastFallbackIsLatest ==
    /\ (Returned /\ r_resp.kind = "frame" /\ UpcomingTimes = {} /\ PastTimes # {}) =>
        /\ Ret.got_upcoming = FALSE
        /\ to_datetime(Ret.next_earnings_date) = Some(SetMax(PastTimes))
    /\ (Returned /\ Ret.next_earnings_date # None /\ Ret.got_upcoming = FALSE) =>
        UpcomingTimes = {}

\* C5 witness: two past entries, the most recent one first
C5_Witness ==
    /\ Returned /\ r_resp.kind = "frame" /\ Len(r_resp.entries) = 2
    /\ r_now = 2
    /\ entry_dt(r_resp, r_resp.entries[1]) = Some(1)
    /\ entry_dt(r_resp, r_resp.entries[2]) = Some(0)
    /\ Ret.got_upcoming = FALSE
    /\ Ret.next_earnings_date = Some(isoformat(1))

\* C9: with no data, or with entries none of which has a parsable date, the
\* record has no date, got_upcoming false, and a source that differs from the
\* provenance tag of a resolved record
C9_EmptyOutcomesTaggedInSource ==
    (/\ Returned
     /\ \/ r_resp.kind = "none"
        \/ r_resp.kind = "frame" /\ ParsedTimes = {}) =>
        /\ Ret.next_earnings_date = None
        /\ Ret.got_upcoming = FALSE
        /\ Ret.source # ProvenanceTag

\* the first of the four candidate names among the provider's columns
FirstWhenName ==
    IF "Time" \in r_resp.columns THEN Some("Time")
    ELSE IF "TimeOfDay" \in r_resp.columns THEN Some("TimeOfDay")
    ELSE IF "When" \in r_resp.columns THEN Some("When")
    ELSE IF "Time (ET)" \in r_resp.columns THEN Some("Time (ET)")
    ELSE None

\* C10: the when of a record with a date is the raw value that the first
\* present candidate field holds in the selected entry; it is absent when no
\* candidate is present or the entry has no value in that field
C10_WhenIsRawValueOrAbsent ==
    (Returned /\ r_resp.kind = "frame" /\ Ret.next_earnings_date # None) =>
        IF FirstWhenName = None THEN Ret.when = None
        ELSE \E k \in 1..Len(r_resp.entries) :
                /\ entry_dt(r_resp, r_resp.entries[k]) = to_datetime(Ret.next_earnings_date)
                /\ Ret.when = r_resp.entries[k].vals[FirstWhenName[1]]

\* ------------------------------------------------------------------ the batch
HasTickerColumn == "ticker" \in infile.columns
Exited == pc = "exited"
OutRows == IF outfile = None THEN <<>> ELSE outfile[1].rows

NonEmptyRows == {k \in 1..Len(infile.cells) : Len(ticker_at(k)) > 0}
CountIn(s) == Cardinality({k \in NonEmptyRows : ticker_at(k) = s})
CountOut(s) == Cardinality({k \in 1..Len(OutRows) : OutRows[k].ticker = s})

\* C2: when main finishes on a CSV with a ticker column, every ticker text
\* occurs in the output as many times as among the input rows whose trimmed
\* ticker is not empty, and the output has no other row
C2_OneRowPerInputRow ==
    (Exited /\ HasTickerColumn) =>
        /\ \A k \in NonEmptyRows : CountOut(ticker_at(k)) = CountIn(ticker_at(k))
        /\ Len(OutRows) = Cardinality(NonEmptyRows)

\* C2 witness: the same ticker twice in the input (once with a trailing
\* blank), two output rows for it, one an error record and one resolved
C2_Witness ==
    /\ Exited /\ HasTickerColumn
    /\ infile.cells = <<Some(<<65, 32>>), Some(<<65>>)>>
    /\ Len(OutRows) = 2
    /\ OutRows[1].ticker = <<65>> /\ OutRows[2].ticker = <<65>>
    /\ OutRows[1].next_earnings_date # <<>>
    /\ OutRows[2].source[1] = "error"

\* a cell that is empty, or empty once stringified and trimmed
IsBlankCell(c) == c = NaN \/ Len(str_strip(c[1])) = 0

\* C3: a row whose ticker cell is blank is skipped: the resolver is called
\* only for the other rows, and only they have an output row
C3_BlankRowsSkipped ==
    LET done == {k \in 1..Len(infile.cells) : k < idx}
        nonBlank == {k \in done : ~IsBlankCell(infile.cells[k])}
    IN  /\ Len(calls) = Cardinality(nonBlank)
        /\ Exited => Len(OutRows) <= Cardinality(nonBlank)

CsvDated(row) == row.next_earnings_date # <<>>
CsvTime(row) == to_datetime(Some(row.next_earnings_date))[1]

\* C6: in the written rows, no dated row follows an undated one, dated rows
\* ascend by date, and rows with equal dates or both undated ascend by ticker
C6_RowsSorted ==
    \A k \in 1..(Len(OutRows) - 1) :
        LET a == OutRows[k]
            b == OutRows[k + 1]
        IN  /\ ~(~CsvDated(a) /\ CsvDated(b))
            /\ (CsvDated(a) /\ CsvDated(b)) => CsvTime(a) <= CsvTime(b)
            /\ (\/ ~CsvDated(a) /\ ~CsvDated(b)
                \/ CsvDated(a) /\ CsvDated(b) /\ CsvTime(a) = CsvTime(b))
                => ~StrLess(b.ticker, a.ticker)

\* C6 witness: the resolver returned an undated record for ticker A and then a
\* dated one for ticker B; the dated row is written first
C6_Witness ==
    /\ Exited /\ Len(OutRows) = 2
    /\ results[1].next_earnings_date = None /\ results[1].ticker = <<65>>
    /\ results[2].next_earnings_date # None /\ results[2].ticker = <<66>>
    /\ OutRows[1].ticker = <<66>> /\ OutRows[2].ticker = <<65>>

\* C7: without a ticker column the resolver is never called, no report is
\* written, and the run ends with an error message and exit status 2
C7_MissingColumnAborts ==
    ~HasTickerColumn =>
        /\ calls = <<>>
        /\ outfile = None
        /\ pc \in {"start", "exited"}
        /\ Exited => (exitStatus = Some(2) /\ stderr # None)

\* C7 witness: a CSV without the column, but with two usable cells, has exited
C7_Witness ==
    /\ ~HasTickerColumn /\ Exited
    /\ infile.cells = <<Some(<<65>>), Some(<<66>>)>>
    /\ exitStatus = Some(2)

\* the non-empty tickers of the input, in input order
RECURSIVE TickersFrom(_)
TickersFrom(k) ==
    IF k > Len(infile.cells) THEN <<>>
    ELSE (IF Len(ticker_at(k)) > 0 THEN <<ticker_at(k)>> ELSE <<>>) \o TickersFrom(k + 1)

\* C8: with a ticker column, also with no rows or only blank tickers, the
\* tickers are resolved one by one in input order whatever each call returned,
\* and the run ends by writing the report with its header and exit status 0
C8_BatchAlwaysWritesReport ==
    (Exited /\ HasTickerColumn) =>
        /\ calls = TickersFrom(1)
        /\ exitStatus = Some(0)
        /\ outfile # None
        /\ outfile[1].header = Columns

====
